---- MODULE Spec2Model ----
(***************************************************************************)
(* Model of the crop-recommendation agent (agent_core.py, class Agent):    *)
(* the dialogue controller, the missing-field resolver, the question       *)
(* registry, the answer normalizer, the enrichment merge and the decision  *)
(* table, together with the gateway calls as the environment answers them. *)
(***************************************************************************)
EXTENDS Integers, Sequences, FiniteSets, TLC

(***************************************************************************)
(* Python str values are sequences of one-character strings, so that       *)
(* lower(), strip(), split(), replace() and the `in` test are computed.    *)
(* The em dash of the location prompt is the single character EmDash.      *)
(***************************************************************************)
EmDash == "U+2014"
Upp == <<"A","B","C","D","E","F","G","H","I","J","K","L","M","N","O","P","Q","R",
       "S","T","U","V","W","X","Y","Z">>
Low == <<"a","b","c","d","e","f","g","h","i","j","k","l","m","n","o","p","q","r",
       "s","t","u","v","w","x","y","z">>
Digits == <<"0","1","2","3","4","5","6","7","8","9">>
Whitespace == {" ", "\t", "\n"}

\* F(v), with v evaluated once
With(v, F(_)) == CHOOSE r \in {F(x) : x \in {v}} : TRUE

UpperChars == {Upp[i] : i \in 1..Len(Upp)}
LowerOf == [c \in UpperChars |-> Low[CHOOSE i \in 1..Len(Upp) : Upp[i] = c]]

\* str.lower() on one character
lower_char(c) == IF c \in UpperChars THEN LowerOf[c] ELSE c

\* str.lower()
str_lower(s) == [i \in 1..Len(s) |-> lower_char(s[i])]

RECURSIVE str_lstrip(_)
str_lstrip(s) ==
  IF s # <<>> /\ Head(s) \in Whitespace THEN str_lstrip(Tail(s)) ELSE s

RECURSIVE str_rstrip(_)
str_rstrip(s) ==
  IF s # <<>> /\ s[Len(s)] \in Whitespace
  THEN str_rstrip(SubSeq(s, 1, Len(s) - 1))
  ELSE s

\* str.strip()
str_strip(s) == str_rstrip(str_lstrip(s))

RECURSIVE split_ws_from(_, _, _, _)
split_ws_from(s, i, cur, acc) ==
  IF i > Len(s)
  THEN (IF cur = <<>> THEN acc ELSE Append(acc, cur))
  ELSE IF s[i] \in Whitespace
       THEN split_ws_from(s, i + 1, <<>>, IF cur = <<>> THEN acc ELSE Append(acc, cur))
       ELSE split_ws_from(s, i + 1, Append(cur, s[i]), acc)

\* str.split() with no argument: the whitespace-separated words
str_split(s) == split_ws_from(s, 1, <<>>, <<>>)

RECURSIVE split_on_from(_, _, _, _, _)
split_on_from(s, c, i, cur, acc) ==
  IF i > Len(s)
  THEN Append(acc, cur)
  ELSE IF s[i] = c
       THEN split_on_from(s, c, i + 1, <<>>, Append(acc, cur))
       ELSE split_on_from(s, c, i + 1, Append(cur, s[i]), acc)

\* str.split(c) for a one-character separator: at least one part
str_split_on(s, c) == split_on_from(s, c, 1, <<>>, <<>>)

RECURSIVE str_join(_, _)
\* sep.join(parts)
str_join(sep, parts) ==
  IF parts = <<>> THEN <<>>
  ELSE IF Len(parts) = 1 THEN parts[1]
  ELSE parts[1] \o sep \o str_join(sep, Tail(parts))

\* sub in s
str_in(sub, s) ==
  \E i \in 1..(Len(s) - Len(sub) + 1) : SubSeq(s, i, i + Len(sub) - 1) = sub

RECURSIVE str_replace(_, _, _)
\* s.replace(c, r) for a one-character c
str_replace(s, c, r) ==
  IF s = <<>> THEN <<>>
  ELSE (IF Head(s) = c THEN r ELSE <<Head(s)>>) \o str_replace(Tail(s), c, r)

(***************************************************************************)
(* Numbers.  A Python float is its value times Scale (four decimals, which *)
(* holds every literal of the program and every input drawn here exactly). *)
(***************************************************************************)
Scale == 100 * 100

IsDigit(c) == \E i \in 1..Len(Digits) : Digits[i] = c
DigitVal(c) == (CHOOSE i \in 1..Len(Digits) : Digits[i] = c) - 1
AllDigits(ds) == \A i \in 1..Len(ds) : IsDigit(ds[i])

RECURSIVE digits_val(_)
digits_val(ds) ==
  IF ds = <<>> THEN 0
  ELSE digits_val(SubSeq(ds, 1, Len(ds) - 1)) * 10 + DigitVal(ds[Len(ds)])

\* the fraction digits as a multiple of 1/Scale (digits past the fourth dropped)
frac_val(ds) ==
  LET d(i) == IF i <= Len(ds) THEN DigitVal(ds[i]) ELSE 0
  IN d(1) * 1000 + d(2) * 100 + d(3) * 10 + d(4)

RECURSIVE digits_of(_)
\* the decimal digits of a natural number
digits_of(n) ==
  IF n < 10 THEN <<Digits[n + 1]>>
  ELSE Append(digits_of(n \div 10), Digits[(n % 10) + 1])

RECURSIVE drop_trailing_zeros(_)
drop_trailing_zeros(ds) ==
  IF Len(ds) > 1 /\ ds[Len(ds)] = "0"
  THEN drop_trailing_zeros(SubSeq(ds, 1, Len(ds) - 1))
  ELSE ds

(***************************************************************************)
(* Python values: None, float, int, str, and dict (of values).             *)
(***************************************************************************)
None == [t |-> "none"]
F(n) == [t |-> "float", f |-> n]
I(n) == [t |-> "int", i |-> n]
S(s) == [t |-> "str", s |-> s]
D(m) == [t |-> "dict", d |-> m]
L(xs) == [t |-> "list", l |-> xs]

\* float(str): optional sign, digits, optional point and digits
float_of_str(s0) ==
  With(str_strip(s0), LAMBDA s :
  LET neg == s # <<>> /\ Head(s) = "-"
      body == IF s # <<>> /\ Head(s) \in {"+", "-"} THEN Tail(s) ELSE s
      parts == str_split_on(body, ".")
      ip == parts[1]
      fp == IF Len(parts) = 2 THEN parts[2] ELSE <<>>
      ok == Len(parts) <= 2 /\ AllDigits(ip) /\ AllDigits(fp) /\ Len(ip) + Len(fp) > 0
      mag == IF ok THEN digits_val(ip) * Scale + frac_val(fp) ELSE 0
  IN [ok |-> ok, v |-> IF neg THEN 0 - mag ELSE mag])

\* int(str): optional sign and digits
int_of_str(s0) ==
  With(str_strip(s0), LAMBDA s :
  LET neg == s # <<>> /\ Head(s) = "-"
      body == IF s # <<>> /\ Head(s) \in {"+", "-"} THEN Tail(s) ELSE s
      ok == body # <<>> /\ AllDigits(body)
      mag == IF ok THEN digits_val(body) ELSE 0
  IN [ok |-> ok, v |-> IF neg THEN 0 - mag ELSE mag])

\* float(x): [ok, v]; not ok is the ValueError / TypeError float() raises
py_float(x) ==
  CASE x.t = "float" -> [ok |-> TRUE, v |-> x.f]
    [] x.t = "int" -> [ok |-> TRUE, v |-> x.i * Scale]
    [] x.t = "str" -> float_of_str(x.s)
    [] OTHER -> [ok |-> FALSE, v |-> 0]

\* int(x)
py_int(x) ==
  CASE x.t = "int" -> [ok |-> TRUE, v |-> x.i]
    [] x.t = "float" -> [ok |-> TRUE, v |-> x.f \div Scale]
    [] x.t = "str" -> int_of_str(x.s)
    [] OTHER -> [ok |-> FALSE, v |-> 0]

\* repr of a float: integer part, point, fraction without trailing zeros
str_of_float(n) ==
  LET mag == IF n < 0 THEN 0 - n ELSE n
      fr == digits_of(Scale + (mag % Scale))
  IN (IF n < 0 THEN <<"-">> ELSE <<>>) \o digits_of(mag \div Scale) \o <<".">>
     \o drop_trailing_zeros(Tail(fr))

\* str(x)
py_str(x) ==
  CASE x.t = "str" -> x.s
    [] x.t = "none" -> <<"N","o","n","e">>
    [] x.t = "float" -> str_of_float(x.f)
    [] x.t = "int" -> (IF x.i < 0 THEN <<"-">> ELSE <<>>)
                      \o digits_of(IF x.i < 0 THEN 0 - x.i ELSE x.i)
    [] OTHER -> <<"{",".",".",".","}">>

\* bool(x): the truth value `if x:` tests
py_truthy(x) ==
  CASE x.t = "none" -> FALSE
    [] x.t = "float" -> x.f # 0
    [] x.t = "int" -> x.i # 0
    [] x.t = "str" -> x.s # <<>>
    [] x.t = "list" -> x.l # <<>>
    [] x.t = "dict" -> DOMAIN x.d # {}
    [] OTHER -> TRUE

(***************************************************************************)
(* Field keys, prompts and the words the code searches for.                *)
(***************************************************************************)
area_acres == <<"a","r","e","a","_","a","c","r","e","s">>
soil_type == <<"s","o","i","l","_","t","y","p","e">>
ph == <<"p","h">>
moisture == <<"m","o","i","s","t","u","r","e">>
location == <<"l","o","c","a","t","i","o","n">>
crop_recommendation == <<"c","r","o","p","_","r","e","c","o","m","m","e","n","d","a","t","i","o",
       "n">>
polyid == <<"p","o","l","y","i","d">>
polygons == <<"p","o","l","y","g","o","n","s">>
last_polygon == <<"l","a","s","t","_","p","o","l","y","g","o","n">>
soil_moisture == <<"s","o","i","l","_","m","o","i","s","t","u","r","e">>
soil_temp_k == <<"s","o","i","l","_","t","e","m","p","_","k">>
agro_precip == <<"a","g","r","o","_","p","r","e","c","i","p">>
agro_temp_k == <<"a","g","r","o","_","t","e","m","p","_","k">>
agro_weather_ts == <<"a","g","r","o","_","w","e","a","t","h","e","r","_","t","s">>

Q_area_acres == <<"A","r","e","a"," ","i","n"," ","a","c","r","e","s"," ","(","e",".","g",
       ".",","," ","2",")">>
Q_soil_type == <<"S","o","i","l"," ","t","y","p","e"," ","(","e",".","g",".",","," ","c",
       "l","a","y",","," ","s","a","n","d","y",","," ","l","o","a","m",","," ",
       "s","i","l","t","y",","," ","p","e","a","t","y",","," ","c","h","a","l",
       "k","y",")">>
Q_ph == <<"S","o","i","l"," ","p","H"," ","(","e",".","g",".",","," ","6",".","5",
       ")">>
Q_moisture == <<"M","o","i","s","t","u","r","e"," ","l","e","v","e","l"," ","(","l","o",
       "w"," ","/"," ","m","e","d","i","u","m"," ","/"," ","h","i","g","h",")">>
Q_location == <<"L","o","c","a","t","i","o","n"," ","(","l","a","t",","," ","l","o","n",
       ")"," ",EmDash," ","c","o","m","m","a"," ","s","e","p","a","r","a","t","e",
       "d"," ","(","e",".","g",".",","," ","1","2",".","9","7","1","6",",","7",
       "7",".","5","9","4","6",")">>
PleaseProvide == <<"P","l","e","a","s","e"," ","p","r","o","v","i","d","e"," ">>

clay == <<"c","l","a","y">>
medium == <<"m","e","d","i","u","m">>
low == <<"l","o","w">>
high == <<"h","i","g","h">>

(***************************************************************************)
(* Utilities                                                               *)
(***************************************************************************)
\* Agent._normalize: "" for None, else the lower-cased words joined by one space
_normalize(text) ==
  IF text.t = "none" THEN <<>>
  ELSE str_join(<<" ">>, str_split(str_lower(str_strip(py_str(text)))))

\* Agent._safe_key_from_question
_safe_key_from_question(question_text) ==
  str_replace(str_replace(str_replace(str_replace(str_replace(
    _normalize(S(question_text)), " ", <<"_">>), "(", <<>>), ")", <<>>), "/", <<"_">>),
    ",", <<>>)

\* the generic tail of Agent._parse_answer_for_field (lines 514-520)
parse_generic(answer) ==
  With(str_strip(py_str(answer)), LAMBDA s :
    IF str_in(<<".">>, s)
    THEN With(float_of_str(s), LAMBDA f : IF f.ok THEN F(f.v) ELSE S(s))
    ELSE With(int_of_str(s), LAMBDA i : IF i.ok THEN I(i.v) ELSE S(s)))

\* Agent._parse_answer_for_field
_parse_answer_for_field(field, answer) ==
  IF answer.t = "none" THEN answer
  ELSE CASE field \in {area_acres, ph} ->
              With(py_float(answer), LAMBDA f : IF f.ok THEN F(f.v) ELSE parse_generic(answer))
         [] field \in {moisture, soil_type} -> S(str_lower(str_strip(py_str(answer))))
         [] field = location -> S(str_strip(py_str(answer)))
         [] OTHER -> parse_generic(answer)

(***************************************************************************)
(* Field <-> question mapping                                              *)
(***************************************************************************)
\* Agent.field_to_question (field_name a str)
field_to_question(field_name) ==
  CASE field_name = <<"a","r","e","a"," ","a","c","r","e","s">> -> Q_area_acres
    [] field_name = <<"s","o","i","l"," ","t","y","p","e">> -> Q_soil_type
    [] field_name = <<"p","h">> -> Q_ph
    [] field_name = <<"m","o","i","s","t","u","r","e">> -> Q_moisture
    [] field_name = <<"l","o","c","a","t","i","o","n">> -> Q_location
    [] OTHER -> PleaseProvide \o field_name

\* lines 128-134: the normalized prompts
N_area_acres == _normalize(S(Q_area_acres))
N_soil_type == _normalize(S(Q_soil_type))
N_ph == _normalize(S(Q_ph))
N_moisture == _normalize(S(Q_moisture))
N_location == _normalize(S(Q_location))

\* Agent.question_to_field (question_text a str): S(field) or None
question_to_field(question_text) ==
  With(_normalize(S(question_text)), LAMBDA q :
     CASE q = N_area_acres -> S(area_acres)
       [] q = N_soil_type -> S(soil_type)
       [] q = N_ph -> S(ph)
       [] q = N_moisture -> S(moisture)
       [] q = N_location -> S(location)
       [] OTHER ->
            IF str_in(<<"a","r","e","a">>, q) THEN S(area_acres)
            ELSE IF str_in(<<"s","o","i","l">>, q) /\ str_in(<<"t","y","p","e">>, q) THEN S(soil_type)
            ELSE IF str_in(<<"p","h">>, q) \/ str_in(<<"p","H">>, question_text) THEN S(ph)
            ELSE IF str_in(<<"m","o","i","s","t","u","r","e">>, q) THEN S(moisture)
            ELSE IF str_in(<<"l","o","c","a","t","i","o","n">>, q) \/ (str_in(<<"l","a","t">>, q) /\ str_in(<<"l","o","n">>, q))
                 THEN S(location)
            ELSE None)

(***************************************************************************)
(* Planner and missing-field resolver                                      *)
(***************************************************************************)
\* Agent.simple_planner (text a str or None)
simple_planner(text) ==
  LET txt == str_lower(IF py_truthy(text) THEN text.s ELSE <<>>)
      required ==
        (IF str_in(<<"a","c","r","e">>, txt) \/ str_in(<<"a","r","e","a">>, txt) THEN <<area_acres>> ELSE <<>>)
        \o <<soil_type, ph, moisture, location>>
  IN << [name |-> "collect_info", requires |-> required],
        [name |-> "call_crop_tool", requires |-> <<soil_type, ph, area_acres, moisture>>],
        [name |-> "build_plan", requires |-> <<crop_recommendation>>] >>

RECURSIVE missing_of_spaced(_, _)
\* missing_of looking the field up in memory under its name with "_" turned to " "
missing_of_spaced(plan, mem) ==
  IF plan = <<>> THEN <<>>
  ELSE LET spaced == [i \in 1..Len(Head(plan).requires) |->
                        str_replace(Head(plan).requires[i], "_", <<" ">>)]
       IN SelectSeq(spaced, LAMBDA f : f \notin DOMAIN mem)
          \o missing_of_spaced(Tail(plan), mem)

RECURSIVE missing_of(_, _)
\* lines 99-103: the missing fields of every step, in order, "_" turned to " "
missing_of(plan, mem) ==
  IF plan = <<>> THEN <<>>
  ELSE LET absent == SelectSeq(Head(plan).requires, LAMBDA f : f \notin DOMAIN mem)
       IN [i \in 1..Len(absent) |-> str_replace(absent[i], "_", <<" ">>)]
          \o missing_of(Tail(plan), mem)

RECURSIVE dedupe_to_questions(_, _)
\* lines 105-110: one question per missing name, first occurrence kept
dedupe_to_questions(missing, seen) ==
  IF missing = <<>> THEN <<>>
  ELSE IF Head(missing) \in seen
       THEN dedupe_to_questions(Tail(missing), seen)
       ELSE <<field_to_question(Head(missing))>>
            \o dedupe_to_questions(Tail(missing), seen \cup {Head(missing)})

\* identify_missing_fields without the seen set
identify_missing_fields_undeduped(plan, mem) ==
  With(missing_of(plan, mem), LAMBDA missing :
    [i \in 1..Len(missing) |-> field_to_question(missing[i])])

\* Agent.identify_missing_fields, with self.memory as mem
identify_missing_fields(plan, mem) ==
  dedupe_to_questions(missing_of(plan, mem), {})

(***************************************************************************)
(* Decision table and plan builder                                         *)
(***************************************************************************)
\* a decimal literal u.d of the program, as a float
Dec(u, d) == u * Scale + d * (Scale \div 10)

\* round(x, 2), ties to even
round2(x) ==
  LET q == Scale \div 100
      r == x % q
      base == x - r
  IN IF 2 * r > q \/ (2 * r = q /\ (base \div q) % 2 = 1) THEN base + q ELSE base

\* soil_key_of without the aliases of sandy soil
soil_key_of_without_sandy(soil_raw) ==
  LET has(a) == str_in(a, soil_raw)
  IN CASE has(<<"c","l","a","y">>) -> "clay"
       [] has(<<"l","o","a","m">>) -> "loam"
       [] has(<<"s","i","l","t">>) \/ has(<<"s","i","l","t","y">>) -> "silty"
       [] has(<<"p","e","a","t">>) \/ has(<<"p","e","a","t","y">>) -> "peaty"
       [] has(<<"c","h","a","l","k">>) \/ has(<<"c","h","a","l","k","y">>) -> "chalky"
       [] OTHER -> "unknown"

\* lines 200-214: the first canonical soil whose alias occurs in soil_raw
soil_key_of(soil_raw) ==
  LET has(a) == str_in(a, soil_raw)
  IN CASE has(<<"c","l","a","y">>) -> "clay"
       [] has(<<"l","o","a","m">>) -> "loam"
       [] has(<<"s","a","n","d">>) \/ has(<<"s","a","n","d","y">>) -> "sandy"
       [] has(<<"s","i","l","t">>) \/ has(<<"s","i","l","t","y">>) -> "silty"
       [] has(<<"p","e","a","t">>) \/ has(<<"p","e","a","t","y">>) -> "peaty"
       [] has(<<"c","h","a","l","k">>) \/ has(<<"c","h","a","l","k","y">>) -> "chalky"
       [] OTHER -> "unknown"

\* the dict literals of est_cost
seeds_and_fertilizers(s, f) == [seeds |-> round2(s), fertilizers |-> round2(f)]
seeds_only(s) == [seeds |-> round2(s)]

\* Agent.crop_recommendation_tool; inputs = [area_acres, soil_type, ph, moisture]
crop_recommendation_tool(inputs) ==
  With(soil_key_of(str_lower(inputs.soil_type)), LAMBDA soil_key :
  With(str_lower(IF inputs.moisture # <<>> THEN inputs.moisture ELSE medium), LAMBDA moist :
  LET pH == inputs.ph
      area == inputs.area_acres
      wet == moist \in {medium, high}
      rec(crop, reason, conf, cost) ==
        [crop |-> crop, reason |-> reason, confidence |-> conf, estimated_costs |-> cost]
  IN CASE soil_key \in {"clay", "loam"} ->
            (IF Dec(5, 5) <= pH /\ pH <= Dec(7, 5) /\ wet
             THEN rec("Maize", "Loamy/clay soil with near-neutral pH and sufficient moisture suits maize.",
                      "high", seeds_and_fertilizers(1000 * area, 800 * area))
             ELSE IF moist = low
             THEN rec("Pulses (e.g., Pigeon pea)", "Drier conditions favor drought-tolerant pulses.",
                      "medium", seeds_and_fertilizers(700 * area, 400 * area))
             ELSE rec("Maize", "General good fit for loamy/clay soils.",
                      "medium", seeds_only(1000 * area)))
       [] soil_key = "sandy" ->
            (IF moist = low /\ Dec(5, 5) <= pH /\ pH <= Dec(7, 0)
             THEN rec("Millet", "Sandy + low moisture favors millet.",
                      "high", seeds_and_fertilizers(600 * area, 400 * area))
             ELSE IF wet /\ Dec(5, 5) <= pH /\ pH <= Dec(7, 5)
             THEN rec("Groundnut", "Groundnut performs well in sandy soils with moderate moisture.",
                      "medium", seeds_and_fertilizers(700 * area, 500 * area))
             ELSE rec("Millet", "Conservative choice for sandy when uncertain.",
                      "medium", seeds_only(650 * area)))
       [] soil_key = "silty" ->
            (IF Dec(6, 0) <= pH /\ pH <= Dec(7, 5) /\ wet
             THEN rec("Wheat", "Silty + moist + near-neutral pH suits wheat.",
                      "high", seeds_and_fertilizers(1200 * area, 900 * area))
             ELSE rec("Barley", "Barley tolerates variable silty conditions.",
                      "medium", seeds_and_fertilizers(1100 * area, 850 * area)))
       [] soil_key = "peaty" ->
            (IF moist = high
             THEN rec("Rice", "Peaty soils retain water - rice is well suited.",
                      "high", seeds_and_fertilizers(1300 * area, 1000 * area))
             ELSE rec("Maize", "Peaty but drier -> maize possible.",
                      "medium", seeds_only(1000 * area)))
       [] soil_key = "chalky" ->
            (IF pH > Dec(7, 0) /\ wet
             THEN rec("Sugarcane", "Alkaline chalky soils with moisture suit sugarcane.",
                      "medium", seeds_and_fertilizers(1400 * area, 1100 * area))
             ELSE rec("Wheat", "Wheat tolerates chalky conditions.",
                      "low", seeds_and_fertilizers(1200 * area, 900 * area)))
       [] OTHER ->
            (IF moist = low
             THEN rec("Millet", "Default drought-tolerant choice when soil unknown.",
                      "medium", seeds_only(700 * area))
             ELSE IF wet /\ Dec(6, 0) <= pH /\ pH <= Dec(7, 5)
             THEN rec("Maize", "General-purpose choice for neutral pH and adequate moisture.",
                      "medium", seeds_only(1000 * area))
             ELSE rec("Maize", "Fallback recommendation.", "low", seeds_only(1000 * area)))))

\* Agent.build_action_plan
build_action_plan(inputs, rec) ==
  << [task |-> <<"Land preparation and seed purchase for", rec.crop, "on", inputs.area_acres, "acres">>,
      weeks |-> 1, notes |-> "Prepare field, buy certified seeds."],
     [task |-> <<"Sowing and initial fertilizer application for", rec.crop>>,
      weeks |-> 2, notes |-> "Sow seeds at recommended spacing. Apply basal fertilizer."],
     [task |-> <<"Crop maintenance and harvest planning for", rec.crop>>,
      weeks |-> 10, notes |-> "Irrigation as needed, pest checks, harvesting timeline planning."] >>

(***************************************************************************)
(* Execution                                                               *)
(***************************************************************************)
\* dict.get(k, d)
mem_get(mem, k, d) == IF k \in DOMAIN mem THEN mem[k] ELSE d

\* moisture_bucket with both thresholds taken into the lower bucket
moisture_bucket_inclusive(sm) ==
  IF sm <= 15 * (Scale \div 100) THEN low
  ELSE IF sm <= 35 * (Scale \div 100) THEN medium
  ELSE high

\* lines 162-167: the bucket of a soil-moisture reading sm
moisture_bucket(sm) ==
  IF sm < 15 * (Scale \div 100) THEN low
  ELSE IF sm < 35 * (Scale \div 100) THEN medium
  ELSE high

\* plan_inputs with a neutral pH of 7.0 as the default
plan_inputs_neutral_ph(mem) ==
  With(py_float(mem_get(mem, area_acres, I(1))), LAMBDA area :
  With(py_float(mem_get(mem, ph, F(Dec(7, 0)))), LAMBDA pH :
  With(IF soil_moisture \in DOMAIN mem THEN py_float(mem[soil_moisture])
       ELSE [ok |-> FALSE, v |-> 0], LAMBDA sm :
    [raised |-> ~(area.ok /\ pH.ok),
     adjusted |-> sm.ok,
     sm |-> sm.v,
     inputs |-> [area_acres |-> area.v,
                 soil_type |-> str_lower(py_str(mem_get(mem, soil_type, S(clay)))),
                 ph |-> pH.v,
                 moisture |-> IF sm.ok THEN moisture_bucket(sm.v)
                              ELSE str_lower(py_str(mem_get(mem, moisture, S(medium))))]])))

\* lines 153-177: the inputs dict, or raised when float() of area or ph raises
plan_inputs(mem) ==
  With(py_float(mem_get(mem, area_acres, I(1))), LAMBDA area :
  With(py_float(mem_get(mem, ph, F(Dec(6, 5)))), LAMBDA pH :
  With(IF soil_moisture \in DOMAIN mem THEN py_float(mem[soil_moisture])
       ELSE [ok |-> FALSE, v |-> 0], LAMBDA sm :
    [raised |-> ~(area.ok /\ pH.ok),
     adjusted |-> sm.ok,
     sm |-> sm.v,
     inputs |-> [area_acres |-> area.v,
                 soil_type |-> str_lower(py_str(mem_get(mem, soil_type, S(clay)))),
                 ph |-> pH.v,
                 moisture |-> IF sm.ok THEN moisture_bucket(sm.v)
                              ELSE str_lower(py_str(mem_get(mem, moisture, S(medium))))]])))

\* lines 178-190, given the inputs and what the crop tool returned for them
plan_result(p, rec) ==
  [raised |-> FALSE,
   logs |-> (IF p.adjusted
             THEN << <<"agro soil_moisture -> moisture", p.sm, p.inputs.moisture>> >>
             ELSE <<>>)
            \o << <<"Using inputs", p.inputs>>, <<"Crop tool returned", rec>> >>,
   inputs |-> p.inputs,
   final |-> [recommendation |-> <<"Recommended crop", rec.crop, "confidence", rec.confidence>>,
              plan |-> build_action_plan(p.inputs, rec),
              costs |-> rec.estimated_costs,
              rationale |-> rec.reason]]

\* Agent.execute_plan on self.memory = mem: the FinalResult, the inputs given to
\* the crop tool and the log lines appended; raised when float() raises
execute_plan(plan, mem) ==
  With(plan_inputs(mem), LAMBDA p :
    IF p.raised
    THEN [raised |-> TRUE, logs |-> <<>>, inputs |-> None, final |-> None]
    ELSE With(crop_recommendation_tool(p.inputs), LAMBDA rec : plan_result(p, rec)))

(***************************************************************************)
(* Gateway helpers.  A context c = [memory, logs, trace] is threaded       *)
(* through them: self.memory, self.logs and the calls made so far in the   *)
(* running public operation.  env is how the environment answers during    *)
(* that operation: api_key (OPENWEATHER_API_KEY set), now (time.time()),   *)
(* and one response [status, body] per request, status "ok" (resp.ok),     *)
(* "bad" (another status code) or "exc" (requests raised).                 *)
(***************************************************************************)
mem_set(mem, k, v) == [x \in DOMAIN mem \cup {k} |-> IF x = k THEN v ELSE mem[x]]
Log(c, entry) == [c EXCEPT !.logs = Append(@, entry)]
Called(c, event) == [c EXCEPT !.trace = Append(@, event)]
Put(c, k, v) == [c EXCEPT !.memory = mem_set(@, k, v)]

\* f"field_{int(time.time())}" and f"frontend_{int(time.time())}"
field_name(now) == <<"f","i","e","l","d","_">> \o digits_of(now)
frontend_name(now) == <<"f","r","o","n","t","e","n","d","_">> \o digits_of(now)

\* Agent.create_polygon_from_geojson; geo is the shape of the GeoJSON given
create_polygon_from_geojson(c, env, geo, name) ==
  IF ~env.api_key
  THEN [c |-> Log(c, <<"Agro API key missing.">>), ret |-> None]
  ELSE IF geo = "EmptyFeatureCollection"
  THEN [c |-> Log(c, <<"Empty FeatureCollection">>), ret |-> None]
  ELSE LET nm == IF name # <<>> THEN name ELSE field_name(env.now)
           c1 == Called(c, <<"POST", "polygons", nm>>)
           obj == env.post.body
           id == IF "id" \in DOMAIN obj.d THEN obj.d.id ELSE None
           registry == IF polygons \in DOMAIN c1.memory THEN c1.memory[polygons].d ELSE <<>>
       IN CASE env.post.status = "ok" ->
                 [c |-> Log(Put(Put(c1, polygons, D(mem_set(registry, nm, id))),
                                last_polygon, obj),
                            <<"Created polygon", nm, id>>),
                  ret |-> obj]
            [] env.post.status = "bad" ->
                 [c |-> Log(c1, <<"Polygon creation failed">>), ret |-> None]
            [] OTHER ->
                 [c |-> Log(c1, <<"Polygon create error">>), ret |-> None]

\* Agent.delete_polygon_by_id
delete_polygon_by_id(c, env, id) ==
  IF ~env.api_key \/ ~py_truthy(id)
  THEN [c |-> c, ret |-> FALSE]
  ELSE LET c1 == Called(c, <<"DELETE", "polygons", id>>)
           registry == c1.memory[polygons].d
           kept == {k \in DOMAIN registry : registry[k] # id}
       IN CASE env.delete.status = "ok" ->
                 [c |-> IF polygons \in DOMAIN c1.memory
                        THEN Put(Log(c1, <<"Deleted polygon", id>>), polygons,
                                 D([k \in kept |-> registry[k]]))
                        ELSE Log(c1, <<"Deleted polygon", id>>),
                  ret |-> TRUE]
            [] env.delete.status = "bad" ->
                 [c |-> Log(c1, <<"Polygon delete failed">>), ret |-> FALSE]
            [] OTHER ->
                 [c |-> Log(c1, <<"Polygon delete error">>), ret |-> FALSE]

\* the response to GET /soil and GET /weather for a polygon: the polygon the
\* running operation created is answered by soil_new / weather_new
soil_response(env, id) ==
  IF env.post.status = "ok" /\ id = env.post.body.d.id THEN env.soil_new ELSE env.soil
weather_response(env, id) ==
  IF env.post.status = "ok" /\ id = env.post.body.d.id THEN env.weather_new ELSE env.weather

\* Agent.get_soil_by_polyid
get_soil_by_polyid(c, env, id) ==
  IF ~env.api_key \/ ~py_truthy(id)
  THEN [c |-> c, ret |-> None]
  ELSE LET c1 == Called(c, <<"GET", "soil", id>>)
           resp == soil_response(env, id)
       IN CASE resp.status = "ok" -> [c |-> c1, ret |-> resp.body]
            [] resp.status = "bad" -> [c |-> Log(c1, <<"Soil fetch failed">>), ret |-> None]
            [] OTHER -> [c |-> Log(c1, <<"Soil fetch error">>), ret |-> None]

\* Agent.get_weather_by_polyid
get_weather_by_polyid(c, env, id) ==
  IF ~env.api_key \/ ~py_truthy(id)
  THEN [c |-> c, ret |-> None]
  ELSE LET c1 == Called(c, <<"GET", "weather", id>>)
           resp == weather_response(env, id)
       IN CASE resp.status = "ok" -> [c |-> c1, ret |-> resp.body]
            [] resp.status = "bad" -> [c |-> Log(c1, <<"Weather fetch failed">>), ret |-> None]
            [] OTHER -> [c |-> Log(c1, <<"Weather fetch error">>), ret |-> None]

\* lines 466-469, 471-474: float(x) when it does not raise, else x itself
float_or_raw(x) == With(py_float(x), LAMBDA f : IF f.ok THEN F(f.v) ELSE x)

\* first_or_self taking the last element of the list
last_or_self(payload) ==
  IF payload.t = "list" /\ payload.l # <<>> THEN payload.l[Len(payload.l)] ELSE payload

\* lines 463, 476: the first element of a non-empty list, else the payload itself
first_or_self(payload) ==
  IF payload.t = "list" /\ payload.l # <<>> THEN payload.l[1] ELSE payload

\* store_soil putting the reading where the user's moisture answer is
store_soil_over_moisture(c, soil) ==
  LET s == first_or_self(soil)
      a == IF "soil_moisture" \in DOMAIN s.d
           THEN Put(c, moisture, float_or_raw(s.d.soil_moisture)) ELSE c
      b == IF "soil_temp" \in DOMAIN s.d
           THEN Put(a, soil_temp_k, float_or_raw(s.d.soil_temp)) ELSE a
  IN IF py_truthy(soil) /\ s.t = "dict" THEN b ELSE c

\* lines 462-474: the soil payload merged into memory
store_soil(c, soil) ==
  LET s == first_or_self(soil)
      a == IF "soil_moisture" \in DOMAIN s.d
           THEN Put(c, soil_moisture, float_or_raw(s.d.soil_moisture)) ELSE c
      b == IF "soil_temp" \in DOMAIN s.d
           THEN Put(a, soil_temp_k, float_or_raw(s.d.soil_temp)) ELSE a
  IN IF py_truthy(soil) /\ s.t = "dict" THEN b ELSE c

\* store_weather adding the rain to the precipitation already stored
store_weather_adding(c, weather) ==
  LET w == first_or_self(weather)
      old == IF agro_precip \in DOMAIN c.memory /\ c.memory[agro_precip].t = "float"
             THEN c.memory[agro_precip].f ELSE 0
      a == IF "rain" \in DOMAIN w.d THEN Put(c, agro_precip, F(old + w.d.rain.f)) ELSE c
      b == IF "temperature" \in DOMAIN w.d THEN Put(a, agro_temp_k, w.d.temperature) ELSE a
      d == IF "ts" \in DOMAIN w.d THEN Put(b, agro_weather_ts, w.d.ts) ELSE b
  IN IF py_truthy(weather) /\ w.t = "dict" THEN d ELSE c

\* lines 475-483: the weather payload merged into memory
store_weather(c, weather) ==
  LET w == first_or_self(weather)
      a == IF "rain" \in DOMAIN w.d THEN Put(c, agro_precip, w.d.rain) ELSE c
      b == IF "temperature" \in DOMAIN w.d THEN Put(a, agro_temp_k, w.d.temperature) ELSE a
      d == IF "ts" \in DOMAIN w.d THEN Put(b, agro_weather_ts, w.d.ts) ELSE b
  IN IF py_truthy(weather) /\ w.t = "dict" THEN d ELSE c

\* _store_agro_payloads taking an absent soil payload for a reading of zero
_store_agro_payloads_zeroing(c, soil, weather) ==
  Log(store_weather(IF soil = None THEN Put(c, soil_moisture, F(0)) ELSE store_soil(c, soil),
                    weather),
      <<"Stored agro payloads into memory.">>)

\* Agent._store_agro_payloads
_store_agro_payloads(c, soil, weather) ==
  Log(store_weather(store_soil(c, soil), weather), <<"Stored agro payloads into memory.">>)

\* Agent.fetch_agro_for_location
fetch_agro_for_location(c, env, lat, lon, cleanup) ==
  IF ~env.api_key
  THEN [c |-> Log(Called(c, <<"fetch_agro_for_location", lat, lon>>),
                  <<"Agro API key missing; cannot fetch by location.">>),
        ret |-> None]
  ELSE
  With(create_polygon_from_geojson(Called(c, <<"fetch_agro_for_location", lat, lon>>),
                                   env, "Feature", field_name(env.now)), LAMBDA made :
  With(IF py_truthy(made.ret) /\ "id" \in DOMAIN made.ret.d THEN made.ret.d.id ELSE None,
       LAMBDA id :
  IF ~py_truthy(id) THEN [c |-> made.c, ret |-> None]
  ELSE
  With(get_soil_by_polyid(made.c, env, id), LAMBDA rs :
  With(get_weather_by_polyid(rs.c, env, id), LAMBDA rw :
  With(_store_agro_payloads(rw.c, rs.ret, rw.ret), LAMBDA stored :
    [c |-> IF cleanup THEN delete_polygon_by_id(stored, env, id).c ELSE stored,
     ret |-> D([soil |-> rs.ret, weather |-> rw.ret])])))))

(***************************************************************************)
(* Public API.  st = [memory, logs, pending_questions, last_user_input,    *)
(* last_result] is the Agent object; an operation yields the object after  *)
(* it, what it returned (out), the calls it made (trace) and the inputs it *)
(* gave to the crop tool (inputs, None when the tool was not run).         *)
(***************************************************************************)
NoQuestions == <<>>

\* Outcome with last_result left as it was
Outcome_uncached(st, c, pending, result, out, inputs) ==
  [st |-> [memory |-> c.memory, logs |-> c.logs, pending_questions |-> pending,
           last_user_input |-> st.last_user_input, last_result |-> st.last_result],
   out |-> out, trace |-> c.trace, inputs |-> inputs]

Outcome(st, c, pending, result, out, inputs) ==
  [st |-> [memory |-> c.memory, logs |-> c.logs, pending_questions |-> pending,
           last_user_input |-> st.last_user_input, last_result |-> result],
   out |-> out, trace |-> c.trace, inputs |-> inputs]

\* handle_user_input keeping the query text in memory as well
handle_user_input_remembering(st, text) ==
  With([st EXCEPT !.last_user_input = IF py_truthy(text) THEN text.s ELSE <<>>], LAMBDA s0 :
  With(simple_planner(text), LAMBDA plan :
  With([memory |-> mem_set(st.memory, <<"l","a","s","t","_","q","u","e","r","y">>, text),
        logs |-> st.logs \o << <<"Received user query", text>>, <<"Planner steps", plan>> >>,
        trace |-> <<>>], LAMBDA c1 :
  With(identify_missing_fields(plan, st.memory), LAMBDA missing :
  IF missing # <<>>
  THEN Outcome(s0, Log(c1, <<"Missing fields", missing>>), missing, st.last_result,
               [type |-> "followup", questions |-> missing, final |-> None], None)
  ELSE
  With(execute_plan(plan, st.memory), LAMBDA ex :
  IF ex.raised
  THEN Outcome(s0, c1, st.pending_questions, st.last_result,
               [type |-> "raise", questions |-> NoQuestions, final |-> None], None)
  ELSE Outcome(s0, Log([c1 EXCEPT !.logs = @ \o ex.logs], <<"Execution completed.">>),
               st.pending_questions, ex.final,
               [type |-> "final", questions |-> NoQuestions, final |-> ex.final],
               ex.inputs))))))

\* Agent.handle_user_input (text a str or None)
handle_user_input(st, text) ==
  With([st EXCEPT !.last_user_input = IF py_truthy(text) THEN text.s ELSE <<>>], LAMBDA s0 :
  With(simple_planner(text), LAMBDA plan :
  With([memory |-> st.memory,
        logs |-> st.logs \o << <<"Received user query", text>>, <<"Planner steps", plan>> >>,
        trace |-> <<>>], LAMBDA c1 :
  With(identify_missing_fields(plan, st.memory), LAMBDA missing :
  IF missing # <<>>
  THEN Outcome(s0, Log(c1, <<"Missing fields", missing>>), missing, st.last_result,
               [type |-> "followup", questions |-> missing, final |-> None], None)
  ELSE
  With(execute_plan(plan, st.memory), LAMBDA ex :
  IF ex.raised
  THEN Outcome(s0, c1, st.pending_questions, st.last_result,
               [type |-> "raise", questions |-> NoQuestions, final |-> None], None)
  ELSE Outcome(s0, Log([c1 EXCEPT !.logs = @ \o ex.logs], <<"Execution completed.">>),
               st.pending_questions, ex.final,
               [type |-> "final", questions |-> NoQuestions, final |-> ex.final],
               ex.inputs))))))

\* answer_field keeping the question text itself as the key when unresolved
answer_field_raw(q_text) ==
  With(question_to_field(q_text), LAMBDA field :
    IF field = None THEN q_text ELSE field.s)

\* lines 39-41: the key under which the answer to q_text is stored
answer_field(q_text) ==
  With(question_to_field(q_text), LAMBDA field :
    IF field = None THEN _safe_key_from_question(q_text) ELSE field.s)

\* answer_field, tabulated for the question texts that occur
KnownQuestions ==
  {Q_area_acres, Q_soil_type, Q_ph, Q_moisture, Q_location,
   PleaseProvide \o <<"c","r","o","p"," ","r","e","c","o","m","m","e","n","d","a","t","i","o",
       "n">>, <<"p","H","?">>, <<"N","o","t","e","s"," ","(","a","n","y",")">>, <<"C","r","o","p"," "," ","R","e","c","o","m","m","e","n","d","a","t","i",
       "o","n">>,
   <<"p","o","l","y","i","d">>}
AnswerFieldTable == [q \in KnownQuestions |-> answer_field(q)]
AnswerFieldOf(q_text) ==
  IF q_text \in KnownQuestions THEN AnswerFieldTable[q_text] ELSE answer_field(q_text)

RECURSIVE store_answers(_, _)
\* lines 38-44: answers is the sequence of the mapping's items <<q_text, answer>>
store_answers(c, answers) ==
  IF answers = <<>> THEN c
  ELSE
  With(AnswerFieldOf(Head(answers)[1]), LAMBDA field :
  With(_parse_answer_for_field(field, Head(answers)[2]), LAMBDA parsed :
  With(Log(Put(c, field, parsed), <<"Stored", field, parsed>>), LAMBDA c1 :
    store_answers(c1, Tail(answers)))))

\* line 50: the location is taken for a polygon id
is_polyid(loc) == loc.t = "str" /\ ~str_in(<<",">>, loc.s) /\ Len(loc.s) >= 6

\* line 54: the location is taken for "lat,lon"
is_latlon(loc) == loc.t = "str" /\ str_in(<<",">>, loc.s)

\* lines 56-62: the "lat,lon" branch
fetch_for_latlon(c, env, loc) ==
  With(str_split_on(loc.s, ","), LAMBDA parts :
  IF Len(parts) # 2 THEN Log(c, <<"Bad location format", loc>>)
  ELSE
  With(float_of_str(str_strip(parts[1])), LAMBDA lat :
  With(float_of_str(str_strip(parts[2])), LAMBDA lon :
  IF ~(lat.ok /\ lon.ok) THEN Log(c, <<"Bad location format", loc>>)
  ELSE
  With(fetch_agro_for_location(c, env, lat.v, lon.v, TRUE), LAMBDA agro :
    Log(agro.c, <<"Agro fetched for lat,lon", py_truthy(agro.ret)>>)))))

\* classify_location keeping a polygon id that is already stored
classify_location_keeping(c, env) ==
  IF location \notin DOMAIN c.memory THEN c
  ELSE IF is_polyid(c.memory[location])
  THEN Log(IF polyid \in DOMAIN c.memory THEN c ELSE Put(c, polyid, c.memory[location]),
           <<"Interpreting location as polyid", c.memory[location]>>)
  ELSE IF is_latlon(c.memory[location])
  THEN fetch_for_latlon(c, env, c.memory[location])
  ELSE c

\* lines 47-62
classify_location(c, env) ==
  IF location \notin DOMAIN c.memory THEN c
  ELSE IF is_polyid(c.memory[location])
  THEN Log(Put(c, polyid, c.memory[location]),
           <<"Interpreting location as polyid", c.memory[location]>>)
  ELSE IF is_latlon(c.memory[location])
  THEN fetch_for_latlon(c, env, c.memory[location])
  ELSE c

\* lines 65-71
fetch_by_polyid(c, env) ==
  IF polyid \in DOMAIN c.memory /\ py_truthy(c.memory[polyid])
  THEN With(get_soil_by_polyid(c, env, c.memory[polyid]), LAMBDA rs :
       With(get_weather_by_polyid(rs.c, env, c.memory[polyid]), LAMBDA rw :
         _store_agro_payloads(rw.c, rs.ret, rw.ret)))
  ELSE c

\* Agent.provide_followup_answers
provide_followup_answers(st, answers, env) ==
  With(store_answers([memory |-> st.memory, logs |-> st.logs, trace |-> <<>>], answers),
       LAMBDA c1 :
  With(classify_location(c1, env), LAMBDA c2 :
  With(fetch_by_polyid(c2, env), LAMBDA c3 :
  With(execute_plan(simple_planner(S(st.last_user_input)), c3.memory), LAMBDA ex :
  IF ex.raised
  THEN Outcome(st, c3, st.pending_questions, st.last_result,
               [type |-> "raise", questions |-> NoQuestions, final |-> None], None)
  ELSE Outcome(st, [c3 EXCEPT !.logs = @ \o ex.logs], st.pending_questions, ex.final,
               [type |-> "final", questions |-> NoQuestions, final |-> ex.final],
               ex.inputs)))))

\* call_execute_plan storing the moisture it gave to the crop tool
call_execute_plan_storing(st) ==
  With(execute_plan(simple_planner(S(st.last_user_input)), st.memory), LAMBDA ex :
  IF ex.raised
  THEN Outcome(st, [memory |-> st.memory, logs |-> st.logs, trace |-> <<>>],
               st.pending_questions, st.last_result,
               [type |-> "raise", questions |-> NoQuestions, final |-> None], None)
  ELSE Outcome(st, [memory |-> mem_set(st.memory, moisture, S(ex.inputs.moisture)),
                    logs |-> st.logs \o ex.logs, trace |-> <<>>],
               st.pending_questions, st.last_result,
               [type |-> "final", questions |-> NoQuestions, final |-> ex.final],
               ex.inputs))

\* Agent.execute_plan called on the Agent object st by a client: it reads
\* self.memory, appends to self.logs and returns the FinalResult
call_execute_plan(st) ==
  With(execute_plan(simple_planner(S(st.last_user_input)), st.memory), LAMBDA ex :
  IF ex.raised
  THEN Outcome(st, [memory |-> st.memory, logs |-> st.logs, trace |-> <<>>],
               st.pending_questions, st.last_result,
               [type |-> "raise", questions |-> NoQuestions, final |-> None], None)
  ELSE Outcome(st, [memory |-> st.memory, logs |-> st.logs \o ex.logs, trace |-> <<>>],
               st.pending_questions, st.last_result,
               [type |-> "final", questions |-> NoQuestions, final |-> ex.final],
               ex.inputs))

(***************************************************************************)
(* Inputs                                                                  *)
(***************************************************************************)
Texts == { S(<<"G","e","t"," ","c","r","o","p"," ","r","e","c","o","m","m","e","n","d",
       "a","t","i","o","n">>), S(<<"P","l","a","n"," ","f","o","r"," ","m","y"," ","2"," ","A","C","R","E",
       " ","f","a","r","m">>) }

LatLon == <<"1","2",".","9","7","1","6",",","7","7",".","5","9","4","6">>
PolyA == <<"a","b","c","d","e","f","1","2","3">>
PolyB == <<"f","i","e","l","d","-","4","2">>
TempId == S(<<"t","m","p","0","0","1">>)

\* what the frontend widgets produce / what a user types
AnswerTyped(field) ==
  CASE field = area_acres -> F(Dec(2, 0))
    [] field = soil_type -> S(<<"c","l","a","y">>)
    [] field = ph -> F(Dec(6, 8))
    [] field = moisture -> S(<<"H","i","g","h">>)
    [] field = location -> S(LatLon)
    [] OTHER -> S(<<"m","a","i","z","e">>)

AnswerText(field) ==
  CASE field = area_acres -> S(<<"1">>)
    [] field = soil_type -> S(<<" ","S","a","n","d","y"," ">>)
    [] field = ph -> S(<<"6",".","0">>)
    [] field = moisture -> S(<<"l","o","w">>)
    [] field = location -> S(PolyA)
    [] OTHER -> S(<<"3",".","5">>)

\* every pending question answered
AnswersTo(questions, typed) ==
  [i \in 1..Len(questions) |->
     <<questions[i], IF typed THEN AnswerTyped(answer_field(questions[i]))
                     ELSE AnswerText(answer_field(questions[i]))>>]

Core4 ==
  << <<Q_soil_type, S(<<"l","o","a","m">>)>>, <<Q_ph, S(<<"7",".","2">>)>>, <<Q_moisture, S(<<"m","e","d","i","u","m">>)>>,
     <<Q_location, S(<<"a","b","c">>)>> >>

AnswerMaps ==
  { <<>>,
    << <<Q_ph, S(<<"a","b","c">>)>> >>,
    << <<Q_area_acres, None>> >>,
    << <<Q_location, S(<<"1",",","x">>)>> >>,
    << <<Q_location, S(PolyB)>> >>,
    << <<<<"p","o","l","y","i","d">>, S(PolyA)>>, <<Q_location, S(PolyB)>> >>,
    << <<Q_location, S(LatLon)>> >>,
    << <<Q_moisture, S(<<"H","i","g","h">>)>> >>,
    Core4,
    << <<Q_ph, S(<<"6",".","0">>)>>, <<<<"p","H","?">>, S(<<"7",".","2">>)>>, <<<<"N","o","t","e","s"," ","(","a","n","y",")">>, S(<<"3",".","5">>)>> >>,
    Core4 \o << <<Q_area_acres, F(Dec(2, 0))>>, <<<<"C","r","o","p"," "," ","R","e","c","o","m","m","e","n","d","a","t","i",
       "o","n">>, S(<<"m","a","i","z","e">>)>> >> }

Ok(body) == [status |-> "ok", body |-> body]
Bad == [status |-> "bad", body |-> None]
Exc == [status |-> "exc", body |-> None]

\* how the environment can answer during one call, by name; now is set per call
EnvOf ==
  [down |->
     [api_key |-> FALSE, now |-> 0, post |-> Ok(D([id |-> TempId])), delete |-> Ok(None),
      soil_new |-> Bad, weather_new |-> Bad, soil |-> Bad, weather |-> Bad],
   up |->
     [api_key |-> TRUE, now |-> 0, post |-> Ok(D([id |-> TempId])), delete |-> Ok(None),
      soil_new |-> Ok(D([soil_moisture |-> F(Dec(0, 1)), soil_temp |-> F(Dec(290, 5))])),
      weather_new |-> Ok(L(<< D([rain |-> F(Dec(1, 2)), temperature |-> F(Dec(300, 0)),
                                ts |-> I(1700000000)]) >>)),
      soil |-> Ok(L(<< D([soil_moisture |-> S(<<"0",".","3","5">>)]) >>)),
      weather |-> Ok(D([temperature |-> F(Dec(301, 0))]))],
   leak |->
     [api_key |-> TRUE, now |-> 0, post |-> Ok(D([id |-> TempId])), delete |-> Bad,
      soil_new |-> Ok(L(<< D([soil_moisture |-> F(15 * (Scale \div 100))]) >>)),
      weather_new |-> Exc,
      soil |-> Ok(D([soil_moisture |-> S(<<"w","e","t">>), soil_temp |-> None])),
      weather |-> Ok(L(<<>>))],
   refused |->
     [api_key |-> TRUE, now |-> 0, post |-> Bad, delete |-> Exc,
      soil_new |-> Bad, weather_new |-> Bad, soil |-> Exc, weather |-> Bad]]

EnvNames == DOMAIN EnvOf
Times == {1, 2}
EnvAt(name, now) == [EnvOf[name] EXCEPT !.now = now]

(***************************************************************************)
(* State: the Agent object, and what the last public call was given,       *)
(* returned and did.                                                       *)
(***************************************************************************)
VARIABLES
  memory,             \* self.memory
  logs,               \* self.logs
  pending_questions,  \* self.pending_questions
  last_user_input,    \* self.last_user_input
  last_result,        \* self.last_result
  ret,                \* the last call: [op, arg, type, questions, final]
  prev,               \* the call before it: [op, type, questions]
  trace,              \* gateway calls and HTTP requests of the last call
  tool_inputs,        \* inputs the last call gave to crop_recommendation_tool
  calls,              \* number of public calls made
  probe               \* inputs and results of the pure-function specifications

vars == <<memory, logs, pending_questions, last_user_input, last_result,
          ret, prev, trace, tool_inputs, calls, probe>>

agent == [memory |-> memory, logs |-> logs, pending_questions |-> pending_questions,
          last_user_input |-> last_user_input, last_result |-> last_result]

\* public calls in one session
MaxCalls == 2

NoCall == [op |-> "none", arg |-> None, type |-> "none", questions |-> NoQuestions,
           final |-> None]

\* Agent.__init__, and nothing called yet
InitAgent ==
  /\ memory = <<>>
  /\ logs = <<>>
  /\ pending_questions = <<>>
  /\ last_user_input = <<>>
  /\ last_result = None
  /\ ret = NoCall
  /\ prev = [op |-> "none", type |-> "none", questions |-> NoQuestions]
  /\ trace = <<>>
  /\ tool_inputs = None
  /\ calls = 0

Init == InitAgent /\ probe = None

\* the Agent object and the observations after a call with outcome o
Becomes(o, op, arg) ==
  /\ memory' = o.st.memory
  /\ logs' = o.st.logs
  /\ pending_questions' = o.st.pending_questions
  /\ last_user_input' = o.st.last_user_input
  /\ last_result' = o.st.last_result
  /\ ret' = [op |-> op, arg |-> arg, type |-> o.out.type, questions |-> o.out.questions,
             final |-> o.out.final]
  /\ prev' = [op |-> ret.op, type |-> ret.type, questions |-> ret.questions]
  /\ trace' = o.trace
  /\ tool_inputs' = o.inputs
  /\ calls' = calls + 1
  /\ UNCHANGED probe

HandleUserInput ==
  /\ calls < MaxCalls
  /\ \E text \in Texts :
       \E o \in {handle_user_input(agent, text)} :
         Becomes(o, "handle_user_input", text)

\* the answers mappings a call may be given in the current state
AnswersNow == AnswerMaps \cup {AnswersTo(pending_questions, typed) : typed \in BOOLEAN}

ProvideFollowupAnswers ==
  /\ calls < MaxCalls
  /\ \E answers \in AnswersNow, env \in EnvNames, now \in Times :
       \E o \in {provide_followup_answers(agent, answers, EnvAt(env, now))} :
         Becomes(o, "provide_followup_answers",
                 [answers |-> answers, env |-> env, now |-> now])

\* Agent.create_polygon_from_geojson called by a client (the frontend's sidebar
\* button "Create Polygon on Agro"), under the name frontend_<time>
CreatePolygon ==
  /\ calls < MaxCalls
  /\ \E env \in EnvNames, now \in Times, geo \in {"Feature", "EmptyFeatureCollection"} :
       \E r \in {create_polygon_from_geojson(
                  [memory |-> memory, logs |-> logs, trace |-> <<>>], EnvAt(env, now), geo,
                  frontend_name(now))} :
          Becomes([st |-> [agent EXCEPT !.memory = r.c.memory, !.logs = r.c.logs],
                   out |-> [type |-> IF r.ret = None THEN "none" ELSE "polygon",
                            questions |-> NoQuestions, final |-> None],
                   trace |-> r.c.trace, inputs |-> None],
                  "create_polygon_from_geojson", [geo |-> geo, env |-> env, now |-> now])

\* Agent.execute_plan called by a client (finalization on its own)
ExecutePlan ==
  /\ calls < MaxCalls
  /\ \E o \in {call_execute_plan(agent)} : Becomes(o, "execute_plan", None)

Next == HandleUserInput \/ ProvideFollowupAnswers \/ CreatePolygon \/ ExecutePlan

Spec == Init /\ [][Next]_vars

\* the Agent object is not touched
AgentIdle ==
  UNCHANGED <<memory, logs, pending_questions, last_user_input, last_result,
              ret, prev, trace, tool_inputs, calls>>

(***************************************************************************)
(* The Field Registry on its own (field_to_question, question_to_field):   *)
(* a field key is turned into its question, the question comes back as a   *)
(* client may have retyped it, and is resolved to a field key.             *)
(***************************************************************************)
\* the five keys the registry has prompts for, and the enrichment-derived
\* keys of the canonical enumeration
AskableKeys == {area_acres, soil_type, ph, moisture, location}
EnrichmentKeys ==
  {soil_moisture, <<"s","o","i","l","_","t","e","m","p">>, <<"p","r","e","c","i","p","i","t","a","t","i","o","n">>, <<"w","e","a","t","h","e","r","_","t","e","m","p">>,
   <<"w","e","a","t","h","e","r","_","t","i","m","e","s","t","a","m","p">>, <<"p","o","l","y","g","o","n","_","i","d">>}
CanonicalKeys == AskableKeys \cup EnrichmentKeys

\* the name identify_missing_fields passes for a key (line 103)
SpacedName(key) == str_replace(key, "_", <<" ">>)

\* ways a question text is retyped: in capitals, with blanks around it, with
\* the blanks between its words doubled
RegistryEdits == {"upper", "padded", "spread"}
LowerChars == {Low[i] : i \in 1..Len(Low)}
UpperOf == [c \in LowerChars |-> Upp[CHOOSE i \in 1..Len(Low) : Low[i] = c]]
Retyped(q, edit) ==
  CASE edit = "upper" ->
         <<>> \o [i \in 1..Len(q) |-> IF q[i] \in LowerChars THEN UpperOf[q[i]] ELSE q[i]]
    [] edit = "padded" -> <<" ">> \o q \o <<"\t">>
    [] OTHER -> str_replace(q, " ", <<" ", " ">>)

InitRegistry ==
  /\ InitAgent
  /\ \E k \in CanonicalKeys, spaced \in BOOLEAN :
       probe = [kind |-> "registry", key |-> k, spaced |-> spaced, stage |-> "key",
                question |-> <<>>, edits |-> {}, field |-> None]

\* field_to_question is applied to the key
AskQuestion ==
  /\ probe.stage = "key"
  /\ probe' = [probe EXCEPT
                 !.stage = "asked",
                 !.question = field_to_question(IF probe.spaced THEN SpacedName(probe.key)
                                                ELSE probe.key)]
  /\ AgentIdle

\* the question text is retyped
RetypeQuestion ==
  /\ probe.stage = "asked"
  /\ \E e \in RegistryEdits \ probe.edits :
       probe' = [probe EXCEPT !.question = Retyped(@, e), !.edits = @ \cup {e}]
  /\ AgentIdle

\* question_to_field is applied to the question text
ResolveQuestion ==
  /\ probe.stage = "asked"
  /\ probe' = [probe EXCEPT !.stage = "resolved",
                            !.field = question_to_field(probe.question)]
  /\ AgentIdle

NextRegistry == AskQuestion \/ RetypeQuestion \/ ResolveQuestion

SpecRegistry == InitRegistry /\ [][NextRegistry]_vars

(***************************************************************************)
(* The Missing-Field Resolver on its own (identify_missing_fields): a plan *)
(* grows step by step, fields become known, and the resolver is run on     *)
(* every plan and memory so built.                                         *)
(***************************************************************************)
\* steps of a plan, and fields one step requires
MaxSteps == 2
MaxReq == 2

\* fields a step may require: two with a prompt, one without
ResolverFields == {soil_type, ph, crop_recommendation}
Requirements == UNION {[1..n -> ResolverFields] : n \in 0..MaxReq}

InitResolver ==
  /\ InitAgent
  /\ probe = [kind |-> "resolver", plan |-> <<>>, memory |-> <<>>, questions |-> <<>>]

\* a step is appended to the plan and the resolver is run
AddStep ==
  /\ Len(probe.plan) < MaxSteps
  /\ \E r \in Requirements :
       \E plan \in {Append(probe.plan, [name |-> "step", requires |-> r])} :
         probe' = [probe EXCEPT !.plan = plan,
                                !.questions = identify_missing_fields(plan, probe.memory)]
  /\ AgentIdle

\* a field is stored in memory and the resolver is run
LearnField ==
  /\ \E f \in ResolverFields \ DOMAIN probe.memory :
       \E mem \in {mem_set(probe.memory, f, S(<<"x">>))} :
         probe' = [probe EXCEPT !.memory = mem,
                                !.questions = identify_missing_fields(probe.plan, mem)]
  /\ AgentIdle

NextResolver == AddStep \/ LearnField

SpecResolver == InitResolver /\ [][NextResolver]_vars

(***************************************************************************)
(* The enrichment merge on its own (_store_agro_payloads): payloads of     *)
(* every shape are merged, one after another, into a memory.               *)
(***************************************************************************)
\* merges in a row
MaxMerges == 2

\* memories a merge may find
MergeMemories ==
  { <<>>,
    (moisture :> S(high)) @@ (ph :> F(Dec(6, 8))) @@ (location :> S(LatLon)),
    (moisture :> S(low)) @@ (soil_moisture :> F(Dec(0, 5))) @@ (agro_precip :> F(Dec(3, 0)))
      @@ (polyid :> S(PolyA)) @@ (<<"n","o","t","e","s","_","a","n","y">> :> S(<<"x">>)) }

\* soil payloads: absent, a mapping, a sequence, something else
SoilPayloads ==
  { None,
    D(<<>>),
    D([soil_moisture |-> F(Dec(0, 2)), soil_temp |-> F(Dec(290, 5))]),
    D([soil_moisture |-> S(<<"0",".","3","5">>), moisture |-> S(<<"d","r","y">>)]),
    D([soil_temp |-> None, ph |-> F(Dec(4, 0))]),
    L(<<>>),
    L(<< D([soil_moisture |-> S(<<"w","e","t">>)]), D([soil_moisture |-> F(Dec(0, 9))]) >>),
    L(<< S(<<"n","/","a">>), D([soil_moisture |-> F(Dec(0, 9))]) >>),
    L(<< D(<<>>), D([soil_moisture |-> F(Dec(0, 9))]) >>),
    S(<<"e","r","r","o","r">>) }

\* weather payloads, likewise
WeatherPayloads ==
  { None,
    D([rain |-> F(Dec(1, 2)), temperature |-> F(Dec(300, 0)), ts |-> I(1700000000)]),
    D([temperature |-> S(<<"w","a","r","m">>), location |-> S(<<"h","e","r","e">>)]),
    L(<<>>),
    L(<< D([rain |-> None]), D([rain |-> F(Dec(9, 0)), ts |-> I(1)]) >>),
    L(<< L(<<>>) >>) }

InitMerge ==
  /\ InitAgent
  /\ \E mem \in MergeMemories :
       probe = [kind |-> "merge", merges |-> 0, before |-> mem, soil |-> None,
                weather |-> None, memory |-> mem, logged |-> 0]

\* _store_agro_payloads is applied to the memory
MergePayloads ==
  /\ probe.merges < MaxMerges
  /\ \E soil \in SoilPayloads, weather \in WeatherPayloads :
       \E c \in {_store_agro_payloads([memory |-> probe.memory, logs |-> <<>>,
                                        trace |-> <<>>], soil, weather)} :
         probe' = [probe EXCEPT !.merges = @ + 1, !.before = probe.memory, !.soil = soil,
                                !.weather = weather, !.memory = c.memory,
                                !.logged = Len(c.logs)]
  /\ AgentIdle

NextMerge == MergePayloads

SpecMerge == InitMerge /\ [][NextMerge]_vars

(***************************************************************************)
(* The decision engine on its own (crop_recommendation_tool): an inputs    *)
(* dict is drawn and the tool is applied to it.                            *)
(***************************************************************************)
\* the inputs dicts the tool is given
DecisionInputs ==
  [area_acres : {Dec(1, 0), Dec(2, 0), Dec(0, 5)},
   soil_type : {clay, <<"l","o","a","m">>, <<"s","a","n","d","y">>, <<"s","a","n","d","y"," ","l","o","a","m">>, <<"s","i","l","t","y">>, <<"p","e","a","t","y">>, <<"c","h","a","l","k","y">>,
                <<"r","o","c","k","y">>, <<>>},
   ph : {Dec(5, 0), Dec(5, 5), Dec(6, 0), Dec(6, 8), Dec(7, 0), Dec(7, 5), Dec(8, 0)},
   moisture : {low, medium, high, <<"w","e","t">>, <<>>}]

InitDecision ==
  /\ InitAgent
  /\ \E inputs \in DecisionInputs :
       probe = [kind |-> "decision", inputs |-> inputs, rec |-> None]

\* crop_recommendation_tool is applied to the inputs
Decide ==
  /\ probe.rec = None
  /\ probe' = [probe EXCEPT !.rec = crop_recommendation_tool(probe.inputs)]
  /\ AgentIdle

NextDecision == Decide

SpecDecision == InitDecision /\ [][NextDecision]_vars

(***************************************************************************)
(* Properties of the dialogue controller, checked under Spec.              *)
(***************************************************************************)
\* the text contains "acre" or "area", case-insensitively
MentionsArea(text) ==
  str_in(<<"a","c","r","e">>, str_lower(text.s)) \/ str_in(<<"a","r","e","a">>, str_lower(text.s))

\* the Missing-Field Resolver run on the plan derived from last_user_input
MissingNow == identify_missing_fields(simple_planner(S(last_user_input)), memory)

\* the elements of a sequence
Range(seq) == {seq[i] : i \in DOMAIN seq}

\* the question texts an answers mapping is keyed by
Keys(answers) == {answers[i][1] : i \in DOMAIN answers}

\* C1: for every text and reachable state, if soil_type, ph, moisture and
\* location are all in known_fields (and area_acres too whenever the text
\* contains "acre" or "area"), handle_user_input(text) returns a result of
\* type "final" rather than follow-up questions.
C1_HandleFinalWhenFieldsKnown ==
  [][ (/\ ret'.op = "handle_user_input"
       /\ {soil_type, ph, moisture, location} \subseteq DOMAIN memory
       /\ (MentionsArea(ret'.arg) => area_acres \in DOMAIN memory))
      => ret'.type = "final" ]_vars

\* C2: a result of type "final" is returned by handle_user_input or
\* provide_followup_answers only in a state where the resolver, run on the
\* plan derived from last_user_input, reports no missing field.
C2_FinalOnlyWhenNothingMissing ==
  (ret.op \in {"handle_user_input", "provide_followup_answers"} /\ ret.type = "final")
    => MissingNow = <<>>

\* C3: for every answers mapping, a non-numeric or None answer to the ph or
\* area question included, provide_followup_answers runs to completion and
\* returns a result of type "final"; it never terminates with an error.
C3_ProvideNeverRaises ==
  ret.op = "provide_followup_answers" => ret.type = "final"

\* C4: with area_acres absent from known_fields, the questions returned by
\* handle_user_input(text) contain the area question if and only if the text
\* contains "acre" or "area"; the questions of soil_type, ph, moisture and
\* location are asked for every text while those fields are absent.
C4_AreaAskedIffMentioned ==
  [][ (ret'.op = "handle_user_input" /\ area_acres \notin DOMAIN memory)
      => /\ Q_area_acres \in Range(ret'.questions) <=> MentionsArea(ret'.arg)
         /\ soil_type \notin DOMAIN memory => Q_soil_type \in Range(ret'.questions)
         /\ ph \notin DOMAIN memory => Q_ph \in Range(ret'.questions)
         /\ moisture \notin DOMAIN memory => Q_moisture \in Range(ret'.questions)
         /\ location \notin DOMAIN memory => Q_location \in Range(ret'.questions) ]_vars

\* C5: if handle_user_input(t) returned follow-up questions Q and
\* provide_followup_answers was then given a well-formed answer for every
\* question of Q, the resolver reports no missing field for the plan of t, and
\* a subsequent handle_user_input(t) returns type "final" and asks none of Q.
C5_OneRoundTripFinalizes ==
  (/\ prev.op = "handle_user_input" /\ prev.type = "followup"
   /\ ret.op = "provide_followup_answers" /\ ret.type = "final"
   /\ Range(prev.questions) \subseteq Keys(ret.arg.answers))
  => /\ MissingNow = <<>>
     /\ \E again \in {handle_user_input(agent, S(last_user_input))} :
          /\ again.out.type = "final"
          /\ Range(again.out.questions) \cap Range(prev.questions) = {}

\* the last call took the coordinate path
FetchedByCoordinates ==
  \E i \in DOMAIN trace : trace[i][1] = "fetch_agro_for_location"

\* C6: calling provide_followup_answers a second time in succession with the
\* same answers mapping, the gateway answering as before, leaves known_fields
\* as the first call left them and returns what the first call returned.
C6_ProvideIdempotent ==
  ret.op = "provide_followup_answers" =>
    \A now \in {t \in Times : t >= ret.arg.now} :
      \E twice \in {provide_followup_answers(agent, ret.arg.answers,
                                             EnvAt(ret.arg.env, now))} :
        /\ twice.st.memory = memory
        /\ twice.out.type = ret.type
        /\ twice.out.final = ret.final

\* C6 as amended: the second call leaves every key of known_fields other than
\* the polygon registry ("polygons") as the first call left it, adds or
\* removes no key, and returns (or raises) what the first call did.
C6_IdempotentButRegistry ==
  ret.op = "provide_followup_answers" =>
    \A now \in {t \in Times : t >= ret.arg.now} :
      \E twice \in {provide_followup_answers(agent, ret.arg.answers,
                                             EnvAt(ret.arg.env, now))} :
        /\ DOMAIN twice.st.memory = DOMAIN memory
        /\ \A k \in DOMAIN memory \ {polygons} : twice.st.memory[k] = memory[k]
        /\ twice.out.type = ret.type
        /\ twice.out.final = ret.final

\* C6 witness: a call that answered several questions, took the coordinate
\* path, stored enrichment and left its polygon registered (DELETE failed)
C6_Witness ==
  /\ ret.op = "provide_followup_answers" /\ ret.type = "final"
  /\ Len(ret.arg.answers) > 1
  /\ FetchedByCoordinates
  /\ soil_moisture \in DOMAIN memory
  /\ polygons \in DOMAIN memory /\ memory[polygons].d # <<>>
  /\ \E t \in Times : t > ret.arg.now

\* the last call requested soil or weather for the polygon id stored in memory
FetchedByStoredPolyid ==
  /\ polyid \in DOMAIN memory
  /\ \E i \in DOMAIN trace : trace[i][1] = "GET" /\ trace[i][3] = memory[polyid]

\* C7: in every provide_followup_answers call, soil/weather are fetched by
\* the stored polygon id only when the stored location is classified as a
\* polygon id (no comma, length >= 6); a location with a comma takes the
\* coordinate path only; a comma-free location shorter than 6 characters
\* triggers no enrichment at all.
C7_EnrichmentFollowsLocation ==
  (ret.op = "provide_followup_answers" /\ location \in DOMAIN memory
   /\ memory[location].t = "str")
  => \E loc \in {memory[location].s} :
       /\ FetchedByStoredPolyid => (~str_in(<<",">>, loc) /\ Len(loc) >= 6)
       /\ str_in(<<",">>, loc) => ~FetchedByStoredPolyid
       /\ FetchedByCoordinates => str_in(<<",">>, loc)
       /\ (~str_in(<<",">>, loc) /\ Len(loc) < 6) => trace = <<>>

\* C8: whenever known_fields holds a numeric soil_moisture reading s at
\* finalization, the moisture given to the decision engine is "low" if
\* s < 0.15, "medium" if 0.15 <= s < 0.35 and "high" if s >= 0.35, whatever
\* moisture the user answered; when soil_moisture is absent or non-numeric,
\* the user's moisture answer, or the default "medium", is given.
C8_MoistureOverride ==
  ret.type = "final" =>
    IF soil_moisture \in DOMAIN memory /\ memory[soil_moisture].t = "float"
    THEN \E s \in {memory[soil_moisture].f} :
           tool_inputs.moisture = (IF 100 * s < 15 * Scale THEN low
                                   ELSE IF 100 * s < 35 * Scale THEN medium
                                   ELSE high)
    ELSE tool_inputs.moisture =
           (IF moisture \in DOMAIN memory THEN memory[moisture].s ELSE medium)

\* C8 witness: a reading of exactly 0.15 made the decision engine's moisture
\* "medium" although the user answered "high"
C8_Witness ==
  /\ ret.type = "final"
  /\ soil_moisture \in DOMAIN memory /\ memory[soil_moisture] = F(15 * (Scale \div 100))
  /\ moisture \in DOMAIN memory /\ memory[moisture] = S(high)
  /\ tool_inputs.moisture = medium

(***************************************************************************)
(* Properties of the Field Registry, checked under SpecRegistry.           *)
(***************************************************************************)
\* C9: for every canonical field key k, the five askable ones and the
\* enrichment-derived ones, question_to_field(field_to_question(k)) = k, and
\* no two canonical keys produce the same question.
C9_RegistryRoundTrip ==
  (~probe.spaced /\ probe.edits = {}) =>
    /\ probe.stage = "resolved" => probe.field = S(probe.key)
    /\ probe.stage # "key" =>
         \A k \in CanonicalKeys \ {probe.key} : field_to_question(k) # probe.question

(***************************************************************************)
(* Properties of the Missing-Field Resolver, checked under SpecResolver.   *)
(***************************************************************************)
RECURSIVE RequiredBy(_)
\* the fields the steps of a plan require, in the order the steps list them
RequiredBy(plan) ==
  IF plan = <<>> THEN <<>> ELSE Head(plan).requires \o RequiredBy(Tail(plan))

\* the question the resolver asks for a field
QuestionOf(f) == field_to_question(SpacedName(f))

\* where a field is first required
FirstRequired(req, f) == CHOOSE i \in DOMAIN req : req[i] = f /\ \A j \in 1..(i - 1) : req[j] # f

\* C10: for every plan and known_fields, identify_missing_fields returns the
\* question of each missing field exactly once, also when the field is
\* required by two or more steps, and the questions come in the order in
\* which their fields are first required when the steps are scanned in order.
C10_ResolverDedupOrder ==
  \E req \in {RequiredBy(probe.plan)}, out \in {probe.questions} :
    \E missing \in {{f \in Range(req) : f \notin DOMAIN probe.memory}} :
      /\ \A f \in missing : Cardinality({i \in DOMAIN out : out[i] = QuestionOf(f)}) = 1
      /\ \A f, g \in missing :
           FirstRequired(req, f) < FirstRequired(req, g)
           => \E i, j \in DOMAIN out : i < j /\ out[i] = QuestionOf(f) /\ out[j] = QuestionOf(g)

\* C10 witness: a missing field required by both steps of a plan, another
\* missing field first required between its two occurrences, two questions
C10_Witness ==
  /\ Len(probe.plan) = 2
  /\ Len(probe.questions) = 2
  /\ \E f, g \in ResolverFields \ DOMAIN probe.memory :
       /\ f # g
       /\ probe.plan[1].requires = <<f, g>>
       /\ f \in Range(probe.plan[2].requires)
       /\ probe.questions = <<QuestionOf(f), QuestionOf(g)>>

\* C11: for every plan and known_fields, identify_missing_fields returns the
\* empty list when every field required by any step is a key of known_fields,
\* and otherwise returns a question for each required field that is not.
C11_ResolverComplete ==
  \E missing \in {{f \in Range(RequiredBy(probe.plan)) : f \notin DOMAIN probe.memory}} :
    /\ missing = {} => probe.questions = <<>>
    /\ \A f \in missing : QuestionOf(f) \in Range(probe.questions)

\* C11 witness: a plan of two steps that require fields, all of them known,
\* and no question
C11_Witness ==
  /\ Len(probe.plan) = 2
  /\ probe.plan[1].requires # <<>> /\ probe.plan[2].requires # <<>>
  /\ Range(RequiredBy(probe.plan)) \subseteq DOMAIN probe.memory
  /\ probe.questions = <<>>

(***************************************************************************)
(* Properties of the enrichment merge, checked under SpecMerge.            *)
(***************************************************************************)
\* the keys _store_agro_payloads writes
EnrichedKeys == {soil_moisture, soil_temp_k, agro_precip, agro_temp_k, agro_weather_ts}

\* C12: for every soil and weather payload (absent, mapping or sequence, with
\* any keys or value types) the merge leaves every key that was in
\* known_fields present and changes the value of no key other than the
\* enrichment-derived ones.
C12_MergeNonDestructive ==
  probe.merges > 0 =>
    /\ DOMAIN probe.before \subseteq DOMAIN probe.memory
    /\ \A k \in DOMAIN probe.before \ EnrichedKeys : probe.memory[k] = probe.before[k]
    /\ DOMAIN probe.memory \ DOMAIN probe.before \subseteq EnrichedKeys

\* C12 witness: a merge into a memory holding a moisture answer and an earlier
\* reading replaced the reading and added the soil temperature
C12_Witness ==
  /\ probe.merges > 0
  /\ moisture \in DOMAIN probe.before /\ soil_moisture \in DOMAIN probe.before
  /\ probe.memory[soil_moisture] # probe.before[soil_moisture]
  /\ soil_temp_k \in DOMAIN probe.memory \ DOMAIN probe.before

(***************************************************************************)
(* Properties of the enrichment handling of provide_followup_answers,      *)
(* checked under Spec.                                                     *)
(***************************************************************************)
\* the environments in which every gateway operation fails: no API key, or
\* every request answered by a non-success status or an exception
FailingEnvs == {"down", "refused"}

\* the last entry of an answers mapping that is stored under key k
LastEntry(answers, k) ==
  CHOOSE i \in DOMAIN answers :
    /\ AnswerFieldOf(answers[i][1]) = k
    /\ \A j \in DOMAIN answers : j > i => AnswerFieldOf(answers[j][1]) # k

\* what an answers mapping leaves in known_fields: under each key, the parsed
\* answer of the last entry stored under it
Given(answers) ==
  [k \in {AnswerFieldOf(answers[i][1]) : i \in DOMAIN answers} |->
     _parse_answer_for_field(k, answers[LastEntry(answers, k)][2])]

\* loc is a str that splits at "," into exactly two parts that parse as numbers
IsCoordinates(loc) ==
  /\ loc.t = "str"
  /\ \E parts \in {str_split_on(loc.s, ",")} :
       /\ Len(parts) = 2
       /\ float_of_str(str_strip(parts[1])).ok
       /\ float_of_str(str_strip(parts[2])).ok

\* the call that led to the next state was provide_followup_answers, in an
\* environment where every gateway operation fails, with a coordinate or
\* polygon-identifier location and numeric answers for ph and area
FailingGatewayCall ==
  /\ ret'.op = "provide_followup_answers"
  /\ ret'.arg.env \in FailingEnvs
  /\ \E given \in {Given(ret'.arg.answers)} :
       /\ {location, ph, area_acres} \subseteq DOMAIN given
       /\ is_polyid(given[location]) \/ IsCoordinates(given[location])
       /\ given[ph].t = "float" /\ given[area_acres].t = "float"

\* the moisture the decision engine is given when no reading overrides it:
\* the stored answer, lower-cased, or the default
MoistureAnswered(mem) ==
  IF moisture \in DOMAIN mem THEN str_lower(py_str(mem[moisture])) ELSE medium

\* C13: when every gateway operation fails, a provide_followup_answers call
\* with a coordinate or polygon-identifier location and numeric ph and area
\* answers returns type "final", sets none of the enrichment-derived fields
\* (each is absent or has the value it had), and, no reading having been
\* stored while the gateway worked, gives the decision engine the user's
\* moisture answer or the default.
C13_GatewayFailureNonFatal ==
  [][ FailingGatewayCall =>
        /\ ret'.type = "final"
        /\ \A k \in EnrichedKeys :
             /\ k \in DOMAIN memory' <=> k \in DOMAIN memory
             /\ k \in DOMAIN memory => memory'[k] = memory[k]
        /\ soil_moisture \notin DOMAIN memory =>
             tool_inputs'.moisture = MoistureAnswered(memory') ]_vars

\* C13 witness: after a call whose POST was refused for a coordinate location,
\* the result is final, no reading is stored and the moisture answered, "high",
\* was given to the decision engine
C13_Witness ==
  /\ ret.op = "provide_followup_answers" /\ ret.type = "final"
  /\ ret.arg.env = "refused"
  /\ \E given \in {Given(ret.arg.answers)} :
       /\ {location, ph, area_acres, moisture} \subseteq DOMAIN given
       /\ IsCoordinates(given[location])
       /\ given[ph].t = "float" /\ given[area_acres].t = "float"
       /\ given[moisture] = S(high)
  /\ \E i \in DOMAIN trace : trace[i][1] = "POST"
  /\ EnrichedKeys \cap DOMAIN memory = {}
  /\ tool_inputs.moisture = high

\* C14: when provide_followup_answers stores a location answer that has no
\* comma and at least 6 characters, that exact string is the polygon
\* identifier stored after the call, whatever identifier was stored before;
\* the call does not invoke the fetch by coordinates; and soil and weather are
\* requested for that identifier (the requests go out when the API key is set).
C14_PolygonIdLocation ==
  [][ (/\ ret'.op = "provide_followup_answers"
       /\ \E given \in {Given(ret'.arg.answers)} :
            location \in DOMAIN given /\ is_polyid(given[location]))
      => \E id \in {Given(ret'.arg.answers)[location]} :
           /\ polyid \in DOMAIN memory' /\ memory'[polyid] = id
           /\ memory'[location] = id
           /\ \A i \in DOMAIN trace' : trace'[i][1] # "fetch_agro_for_location"
           /\ EnvOf[ret'.arg.env].api_key =>
                /\ \E i \in DOMAIN trace' : trace'[i] = <<"GET", "soil", id>>
                /\ \E i \in DOMAIN trace' : trace'[i] = <<"GET", "weather", id>> ]_vars

\* C14 witness: a call stored the answer "abcdef123" under polyid and then the
\* location "field-42"; the identifier is now "field-42" and its soil was
\* requested
C14_Witness ==
  /\ ret.op = "provide_followup_answers"
  /\ \E i \in DOMAIN logs : logs[i] = <<"Stored", polyid, S(PolyA)>>
  /\ memory[location] = S(PolyB) /\ memory[polyid] = S(PolyB)
  /\ \A i \in DOMAIN trace : trace[i][1] # "fetch_agro_for_location"
  /\ \E i \in DOMAIN trace : trace[i] = <<"GET", "soil", S(PolyB)>>

\* known_fields after the answers of a mapping are stored over mem
AfterAnswers(mem, answers) ==
  With(Given(answers), LAMBDA given :
    [k \in DOMAIN mem \cup DOMAIN given |-> IF k \in DOMAIN given THEN given[k] ELSE mem[k]])

\* the location stored once the answers are in has a comma but is not two
\* numbers, and no polygon identifier is stored
BadCoordinates(mem) ==
  /\ location \in DOMAIN mem /\ polyid \notin DOMAIN mem
  /\ is_latlon(mem[location]) /\ ~IsCoordinates(mem[location])

\* C15: when the stored location contains a comma but does not split into
\* exactly two parts that both parse as numbers, and no polygon identifier is
\* in known_fields, provide_followup_answers makes no gateway call, appends a
\* log entry for the failure, leaves known_fields as they are apart from the
\* answers it stored, and returns type "final".
C15_BadCoordinatesRecovered ==
  [][ (/\ ret'.op = "provide_followup_answers"
       /\ BadCoordinates(AfterAnswers(memory, ret'.arg.answers)))
      => /\ trace' = <<>>
         /\ \E i \in DOMAIN logs' : i > Len(logs) /\ logs'[i][1] = "Bad location format"
         /\ memory' = AfterAnswers(memory, ret'.arg.answers)
         /\ ret'.type = "final" ]_vars

(***************************************************************************)
(* Properties of finalization (execute_plan), checked under Spec.          *)
(***************************************************************************)
\* the number float() makes of a stored area or ph
AsFloat(v) == py_float(v).v

\* the str().lower() of a stored soil type or moisture
AsLower(v) == str_lower(py_str(v))

\* area, soil type and ph given to the decision engine are the stored values,
\* or 1, "clay" and 6.5 where nothing is stored
DefaultsButMoisture ==
  /\ tool_inputs.area_acres =
       (IF area_acres \in DOMAIN memory THEN AsFloat(memory[area_acres]) ELSE Dec(1, 0))
  /\ tool_inputs.soil_type =
       (IF soil_type \in DOMAIN memory THEN AsLower(memory[soil_type]) ELSE clay)
  /\ tool_inputs.ph = (IF ph \in DOMAIN memory THEN AsFloat(memory[ph]) ELSE Dec(6, 5))

\* C16: in any state, with empty known_fields and before any
\* handle_user_input call too, the decision engine is given the default of
\* each of area_acres, soil_type, ph and moisture that is absent from
\* known_fields (1, "clay", 6.5, "medium") and the stored value of each that
\* is present.
C16_DefaultsAtFinalization ==
  tool_inputs # None =>
    /\ DefaultsButMoisture
    /\ tool_inputs.moisture = MoistureAnswered(memory)

\* C16, amended: as C16 for area_acres, soil_type and ph; the moisture given
\* is the bucket of the stored soil_moisture reading when that reading is a
\* number (below 0.15 "low", below 0.35 "medium", else "high"), and only
\* otherwise the stored moisture or the default "medium".
C16_DefaultsUnlessReading ==
  tool_inputs # None =>
    /\ DefaultsButMoisture
    /\ IF soil_moisture \in DOMAIN memory /\ py_float(memory[soil_moisture]).ok
       THEN \E s \in {AsFloat(memory[soil_moisture])} :
              /\ 100 * s < 15 * Scale => tool_inputs.moisture = low
              /\ (100 * s >= 15 * Scale /\ 100 * s < 35 * Scale)
                   => tool_inputs.moisture = medium
              /\ 100 * s >= 35 * Scale => tool_inputs.moisture = high
       ELSE tool_inputs.moisture = MoistureAnswered(memory)

\* C16 witness: finalization with only a ph of 7.2 stored gave the decision
\* engine area 1, soil "clay", ph 7.2 and moisture "medium"
C16_Witness ==
  /\ ph \in DOMAIN memory /\ memory[ph] = F(Dec(7, 2))
  /\ {area_acres, soil_type, moisture, soil_moisture} \cap DOMAIN memory = {}
  /\ tool_inputs = [area_acres |-> Dec(1, 0), soil_type |-> clay,
                    ph |-> Dec(7, 2), moisture |-> medium]

(***************************************************************************)
(* Properties of the answer storing of provide_followup_answers, checked   *)
(* under Spec.                                                             *)
(***************************************************************************)
\* the key an entry is stored under: the canonical key when question_to_field
\* resolves the question, otherwise the key derived from its normalized text
KeyFor(q_text) ==
  IF question_to_field(q_text) # None THEN question_to_field(q_text).s
  ELSE _safe_key_from_question(q_text)

\* the normalized answer of the last entry of the mapping stored under key k
LastAnswer(answers, k) ==
  \E given \in {Given(answers)} : k \in DOMAIN given /\ memory[k] = given[k]

\* C17: for every entry (question, answer) of the mapping passed to
\* provide_followup_answers, known_fields holds after the call a key for it,
\* the canonical key when question_to_field resolves the question and the key
\* derived from the normalized question text otherwise, and the value of that
\* key is the normalized answer of the last entry that resolved to it.
C17_NoAnswerDropped ==
  ret.op = "provide_followup_answers" =>
    \A i \in DOMAIN ret.arg.answers :
      \E k \in {KeyFor(ret.arg.answers[i][1])} :
        k \in DOMAIN memory /\ LastAnswer(ret.arg.answers, k)

(***************************************************************************)
(* Properties of the decision engine, checked under SpecDecision.          *)
(***************************************************************************)
\* the crops of the decision table
Crops ==
  {"Maize", "Pulses (e.g., Pigeon pea)", "Millet", "Groundnut", "Wheat", "Barley", "Rice",
   "Sugarcane"}

\* soil_type = clay, ph = 6.8, moisture = high, area_acres = 2
ScenarioA ==
  [area_acres |-> Dec(2, 0), soil_type |-> clay, ph |-> Dec(6, 8), moisture |-> high]

\* soil_type = sandy, ph = 6.0, moisture = low, area_acres = 1
ScenarioB ==
  [area_acres |-> Dec(1, 0), soil_type |-> <<"s", "a", "n", "d", "y">>, ph |-> Dec(6, 0),
   moisture |-> low]

\* C18: the decision engine maps (clay, 6.8, high, 2 acres) to Maize with
\* confidence high and (sandy, 6.0, low, 1 acre) to Millet with confidence
\* high, and returns for every input a crop and a confidence that is low,
\* medium or high.
C18_DecisionTable ==
  probe.rec # None =>
    /\ probe.inputs = ScenarioA =>
         (probe.rec.crop = "Maize" /\ probe.rec.confidence = "high")
    /\ probe.inputs = ScenarioB =>
         (probe.rec.crop = "Millet" /\ probe.rec.confidence = "high")
    /\ probe.rec.crop \in Crops
    /\ probe.rec.confidence \in {"low", "medium", "high"}

\* C18 witness: the tool was applied to scenario B and returned Millet
C18_Witness ==
  /\ probe.inputs = ScenarioB
  /\ probe.rec # None /\ probe.rec.crop = "Millet"

(***************************************************************************)
(* Properties of the session state, checked under Spec.                    *)
(***************************************************************************)
\* the last call ended with a finalization: execute_plan itself, or
\* provide_followup_answers, whose last step it is
EndedWithFinalization == ret.op \in {"execute_plan", "provide_followup_answers"}

\* C19: execute_plan run right after a finalization, known_fields unchanged in
\* between, returns the FinalResult (recommendation, plan, costs, rationale)
\* that the finalization before it returned, and execute_plan leaves
\* known_fields as they are.
C19_FinalizeIdempotent ==
  [][ ret'.op = "execute_plan" =>
        /\ memory' = memory
        /\ EndedWithFinalization => (ret'.type = ret.type /\ ret'.final = ret.final) ]_vars

\* C19 witness: execute_plan, run after a provide_followup_answers call that
\* stored a soil_moisture reading, returned the FinalResult of that call
C19_Witness ==
  /\ prev.op = "provide_followup_answers" /\ ret.op = "execute_plan"
  /\ ret.type = "final" /\ ret.final = last_result
  /\ soil_moisture \in DOMAIN memory /\ tool_inputs.moisture = low

\* C20: after every handle_user_input or provide_followup_answers call
\* pending_questions is the questions that call's planning pass found
\* outstanding: the questions returned when the call asks follow-up questions,
\* and none when it returns type "final"; it holds no question of an earlier
\* pass.
C20_PendingReplacedEveryPass ==
  ret.op \in {"handle_user_input", "provide_followup_answers"} =>
    /\ ret.type = "followup" => pending_questions = ret.questions
    /\ ret.type = "final" => pending_questions = <<>>

\* s is a prefix of t
IsPrefix(s, t) == Len(s) <= Len(t) /\ \A i \in DOMAIN s : t[i] = s[i]

\* C21: across handle_user_input, provide_followup_answers and gateway
\* operations the log before an operation is a prefix of the log after it,
\* and every handle_user_input and provide_followup_answers call appends at
\* least one entry.
C21_LogAppendOnly ==
  [][ /\ IsPrefix(logs, logs')
      /\ ret'.op \in {"handle_user_input", "provide_followup_answers"}
           => Len(logs') > Len(logs) ]_vars

\* C22: after any handle_user_input or provide_followup_answers call that
\* returns type "final", last_result is the FinalResult that call returned,
\* and a handle_user_input call that returns follow-up questions leaves
\* last_result as it was.
C22_LastResultCached ==
  [][ /\ (ret'.op \in {"handle_user_input", "provide_followup_answers"}
          /\ ret'.type = "final") => last_result' = ret'.final
      /\ (ret'.op = "handle_user_input" /\ ret'.type = "followup")
           => last_result' = last_result ]_vars

\* C22 witness: a handle_user_input call that asked follow-up questions after
\* a provide_followup_answers call had returned a FinalResult, which
\* last_result still holds
C22_Witness ==
  /\ prev.op = "provide_followup_answers" /\ prev.type = "final"
  /\ ret.op = "handle_user_input" /\ ret.type = "followup"
  /\ last_result # None
  /\ last_result = execute_plan(simple_planner(S(last_user_input)), memory).final

\* the canonical field enumeration, each field under the key the code stores
\* it by (soil_temp_k for soil_temp, agro_precip for precipitation,
\* agro_temp_k for weather_temp, agro_weather_ts for weather_timestamp,
\* polyid for polygon_id)
CanonicalStored == AskableKeys \cup EnrichedKeys \cup {polyid}

\* the free-form keys: those derived from the question texts that
\* question_to_field does not resolve
FreeFormKeys ==
  {_safe_key_from_question(q) : q \in {k \in KnownQuestions : question_to_field(k) = None}}

\* C23: in every reachable state every key of known_fields is a member of the
\* canonical field enumeration or a free-form key derived from a question
\* text that question_to_field could not resolve.
C23_OnlyCanonicalKeys ==
  DOMAIN memory \subseteq CanonicalStored \cup FreeFormKeys

\* C23, amended: every key of known_fields is a member of the canonical
\* enumeration, a free-form key, or one of the two keys that polygon creation
\* writes, polygons and last_polygon.
C23_CanonicalOrPolygonKeys ==
  DOMAIN memory \subseteq CanonicalStored \cup FreeFormKeys \cup {polygons, last_polygon}

\* C23 witness: known_fields holds answers, a free-form key, a reading and the
\* two keys of polygon creation
C23_Witness ==
  /\ {location, ph, soil_moisture, polygons, last_polygon} \subseteq DOMAIN memory
  /\ DOMAIN memory \cap FreeFormKeys # {}

(***************************************************************************)
(* Payload shapes of the enrichment merge, checked under SpecMerge.        *)
(***************************************************************************)
\* the payload is a non-empty sequence of mappings
IsSequenceOfMappings(payload) ==
  /\ payload.t = "list" /\ payload.l # <<>>
  /\ \A i \in DOMAIN payload.l : payload.l[i].t = "dict"

\* the payload is absent or an empty sequence
IsAbsentOrEmpty(payload) == payload = None \/ payload = L(<<>>)

\* the first element of a non-empty sequence of mappings, else the payload
FirstMapping(payload) ==
  IF IsSequenceOfMappings(payload) THEN payload.l[1] ELSE payload

\* known_fields after the payloads are merged into mem
Merged(mem, soil, weather) ==
  _store_agro_payloads([memory |-> mem, logs |-> <<>>, trace |-> <<>>], soil, weather).memory

\* C24: merging a soil or weather payload given as a non-empty sequence of
\* mappings has the same effect on known_fields as merging its first element
\* alone, and an absent payload or an empty sequence changes no field.
C24_PayloadShapeNormalized ==
  probe.merges > 0 =>
    /\ probe.memory = Merged(probe.before, FirstMapping(probe.soil),
                             FirstMapping(probe.weather))
    /\ IsAbsentOrEmpty(probe.soil) =>
         probe.memory = Merged(probe.before, None, probe.weather)
    /\ IsAbsentOrEmpty(probe.weather) =>
         probe.memory = Merged(probe.before, probe.soil, None)
    /\ (IsAbsentOrEmpty(probe.soil) /\ IsAbsentOrEmpty(probe.weather))
         => probe.memory = probe.before

\* C24 witness: a sequence of two soil mappings was merged and the reading of
\* the first one, "wet", is stored; the weather payload was an empty sequence
C24_Witness ==
  /\ probe.merges > 0
  /\ IsSequenceOfMappings(probe.soil) /\ Len(probe.soil.l) = 2
  /\ probe.weather = L(<<>>)
  /\ soil_moisture \in DOMAIN probe.memory
  /\ probe.memory[soil_moisture].t = "str" /\ probe.memory[soil_moisture].s = <<"w", "e", "t">>
  /\ probe.memory # probe.before

(***************************************************************************)
(* What the public calls leave alone, checked under Spec.                  *)
(***************************************************************************)
\* C25: handle_user_input never modifies known_fields: for every text and
\* state the field mapping after the call is the mapping before it; and
\* provide_followup_answers never changes the last user text.
C25_HandleKeepsFields ==
  [][ /\ ret'.op = "handle_user_input" => memory' = memory
      /\ ret'.op = "provide_followup_answers" => last_user_input' = last_user_input ]_vars

\* C25 witness: handle_user_input was called with known_fields holding what
\* an earlier provide_followup_answers call had stored, and they still do
C25_Witness ==
  /\ prev.op = "provide_followup_answers" /\ ret.op = "handle_user_input"
  /\ last_user_input = ret.arg.s
  /\ last_user_input # <<>> /\ DOMAIN memory # {}
====
